---- MODULE Spec2Model ----
(***************************************************************************)
(* jobly: the partial-update clause builder (helpers/sql.js) and the two   *)
(* entity managers, Job and Company (models/job.js, models/company.js),    *)
(* over a relational store reached through db.query(text, params).         *)
(*                                                                         *)
(* Values.  A nullable value is an option: NULL is <<>>, the value v is    *)
(* <<v>>.  Text that is pattern-matched (title, name) is a sequence of     *)
(* one-character strings.  Column and field names are strings.             *)
(*                                                                         *)
(* The store.  Each table is a set of rows.  The store keeps jobs.id and   *)
(* companies.handle unique; the reference from jobs.company_handle to      *)
(* companies is left out, the two tables being read and written apart.     *)
(***************************************************************************)
EXTENDS Integers, Sequences, FiniteSets, TLC

VARIABLES
    jobs,        \* the rows of table jobs: [id, title, salary, equity, company_handle]
    companies,   \* the rows of table companies: [handle, name, description, num_employees, logo_url]
    nextId,      \* the next value of the serial column jobs.id
    last,        \* the last call made: [op, arg, err, ret, issued]
    procs,       \* SpecRace: each concurrent create call, [pc, entity, data, err, inserted]
    created      \* SpecDup: the keys created, with no delete (and no update) since

vars == <<jobs, companies, nextId, last, procs, created>>

NULL == <<>>
Undefined == <<>>
Some(v) == <<v>>

(***************************************************************************)
(* Bounds of the model.                                                    *)
(***************************************************************************)
MaxFields == 2    \* longest update payload handed to sqlForPartialUpdate in SpecSql
MaxId == 2        \* ids the serial column hands out before create is cut off
MaxCalls == 2     \* create calls under way at once in SpecRace

(***************************************************************************)
(* Generic helpers on sequences.                                           *)
(***************************************************************************)
Range(s) == {s[i] : i \in 1..Len(s)}

RECURSIVE Join(_, _)
\* Array.prototype.join on a sequence of strings
Join(strs, sep) ==
    IF Len(strs) = 0 THEN ""
    ELSE IF Len(strs) = 1 THEN strs[1]
    ELSE strs[1] \o sep \o Join(Tail(strs), sep)

\* the ordered (field, value) entries of a JS object: sequences without a repeated key
Objects(keys, vals, maxLen) ==
    LET all == UNION {[1..n -> [k : keys, v : vals]] : n \in 0..maxLen}
    IN  {d \in all : \A i, j \in 1..Len(d) : d[i].k = d[j].k => i = j}

Keys(obj) == [i \in 1..Len(obj) |-> obj[i].k]
Values(obj) == [i \in 1..Len(obj) |-> obj[i].v]
Has(obj, key) == \E i \in 1..Len(obj) : obj[i].k = key
Get(obj, key) == obj[CHOOSE i \in 1..Len(obj) : obj[i].k = key].v

\* a query-string value is text: a sequence of characters
Text(chars) == Join(chars, "")

Digits == <<"0", "1", "2", "3", "4", "5", "6", "7", "8", "9">>
IsDigit(c) == \E i \in 1..Len(Digits) : Digits[i] = c
DigitOf(c) == (CHOOSE i \in 1..Len(Digits) : Digits[i] = c) - 1

RECURSIVE DigitsValue(_)
DigitsValue(chars) ==
    IF Len(chars) = 0 THEN 0
    ELSE DigitsValue(SubSeq(chars, 1, Len(chars) - 1)) * 10 + DigitOf(chars[Len(chars)])

\* parseInt(text) for text without sign or blanks: the number its leading digits
\* spell, NaN (no value) when it starts with none
ParseInt(chars) ==
    LET lead == CHOOSE k \in 0..Len(chars) :
                    /\ \A i \in 1..k : IsDigit(chars[i])
                    /\ k = Len(chars) \/ ~IsDigit(chars[k + 1])
    IN  IF lead = 0 THEN <<>> ELSE <<DigitsValue(SubSeq(chars, 1, lead))>>

\* `${n}` for what parseInt returned
NumberText(n) == IF n = <<>> THEN "NaN" ELSE ToString(n[1])

\* the object without one of its keys
Without(obj, key) == SelectSeq(obj, LAMBDA e : e.k # key)

(***************************************************************************)
(* helpers/sql.js: sqlForPartialUpdate(dataToUpdate, jsToSql).             *)
(* dataToUpdate is an object (ordered entries); jsToSql is Undefined or    *)
(* Some(m) with m a function from field names to column names.             *)
(***************************************************************************)
\* jsToSql[colName]: a missing entry reads as undefined, here the falsy ""
MapEntry(m, colName) == IF colName \in DOMAIN m THEN m[colName] ELSE ""

\* a || b on strings: b when a is falsy (empty)
OrElse(a, b) == IF a # "" THEN a ELSE b

\* the mutant: every field name is used verbatim, the name-map is ignored
ColumnFor_Verbatim(jsToSql, colName) == colName

\* jsToSql[colName] || colName
ColumnFor(jsToSql, colName) == OrElse(MapEntry(jsToSql[1], colName), colName)

\* `"${col}"=$${idx + 1}` (idx is 0-based in the source; i here is idx + 1)
Assignment(col, i) == "\"" \o col \o "\"=$" \o ToString(i)

\* the mutant: the check for an empty field set is missing
sqlForPartialUpdate_NoEmptyCheck(dataToUpdate, jsToSql) ==
    LET keys == Keys(dataToUpdate)
    IN  IF Len(keys) > 0 /\ jsToSql = Undefined
        THEN [err |-> "TypeError", setCols |-> "", set |-> <<>>, values |-> <<>>]
        ELSE LET set == [i \in 1..Len(keys) |->
                            [col |-> ColumnFor(jsToSql, keys[i]), idx |-> i]]
                 cols == [i \in 1..Len(keys) |-> Assignment(set[i].col, set[i].idx)]
             IN  [err |-> "",
                  setCols |-> Join(cols, ", "),
                  set |-> set,
                  values |-> Values(dataToUpdate)]

sqlForPartialUpdate(dataToUpdate, jsToSql) ==
    LET keys == Keys(dataToUpdate)
    IN  IF Len(keys) = 0
        THEN [err |-> "BadRequest", setCols |-> "", set |-> <<>>, values |-> <<>>]
        ELSE IF jsToSql = Undefined
        \* jsToSql[colName] on undefined throws a TypeError
        THEN [err |-> "TypeError", setCols |-> "", set |-> <<>>, values |-> <<>>]
        ELSE LET set == [i \in 1..Len(keys) |->
                            [col |-> ColumnFor(jsToSql, keys[i]), idx |-> i]]
                 cols == [i \in 1..Len(keys) |-> Assignment(set[i].col, set[i].idx)]
             IN  [err |-> "",
                  setCols |-> Join(cols, ", "),
                  set |-> set,
                  values |-> Values(dataToUpdate)]

(***************************************************************************)
(* The relational store behind db.query(text, params).  A statement is     *)
(* [text, ast, params]: text is the SQL string the manager builds, ast is  *)
(* what that text says (the store's reading of it), params are the bound   *)
(* values; $i in the text is params[i].  The tables' columns are those the *)
(* managers' INSERT statements name.                                       *)
(***************************************************************************)
JobColumns == {"id", "title", "salary", "equity", "company_handle"}
CompanyColumns == {"handle", "name", "description", "num_employees", "logo_url"}

ColumnsOf(table) == IF table = "jobs" THEN JobColumns ELSE CompanyColumns

\* The key the store itself keeps unique in each table: jobs.id is the serial
\* identifier, companies.handle the unique identifier of a company.  The
\* (title, company_handle) pair of a job is checked by Job.create alone.
StoreUniqueKey == [jobs |-> "id", companies |-> "handle"]

KeysUnique(table, rows) ==
    \A r1, r2 \in rows : r1[StoreUniqueKey[table]] = r2[StoreUniqueKey[table]] => r1 = r2

Stmt(text, ast, params) == [text |-> text, ast |-> ast, params |-> params]

Cond(col, idx) == [col |-> col, idx |-> idx]
Ret(col, as) == [col |-> col, as |-> as]

\* the rows that satisfy every `col = $idx` of a WHERE clause
Matching(rows, where, params) ==
    {r \in rows : \A i \in 1..Len(where) : r[where[i].col] = params[where[i].idx]}

\* A NUMERIC value (here in hundredths) as the text the driver returns for it:
\* 50 is "0.5", 0 is "0", 1 is "0.01".
NumericText(n) ==
    IF n % 100 = 0 THEN ToString(n \div 100)
    ELSE IF n % 10 = 0 THEN ToString(n \div 100) \o "." \o ToString((n % 100) \div 10)
    ELSE ToString(n \div 100) \o "." \o ToString((n % 100) \div 10) \o ToString(n % 10)

\* the value of a column as a result row carries it
Read(row, col) ==
    IF col = "equity" /\ row[col] # NULL THEN Some(NumericText(row[col][1])) ELSE row[col]

ColOfAlias(returning, a) ==
    returning[CHOOSE i \in 1..Len(returning) : returning[i].as = a].col

\* a result row: the columns of a SELECT list or RETURNING clause under their aliases
Project(row, returning) ==
    [a \in {returning[i].as : i \in 1..Len(returning)} |-> Read(row, ColOfAlias(returning, a))]

StoreResult(err, rows, table, serial) ==
    [err |-> err, rows |-> rows, table |-> table, serial |-> serial]

\* SELECT ... FROM table WHERE col = $i AND ...: the rows selected, the table as it was
ExecSelect(rows, serial, stmt) ==
    StoreResult("", Matching(rows, stmt.ast.where, stmt.params), rows, serial)

\* INSERT INTO table (cols) VALUES ($1, ...) RETURNING ...: a serial id is drawn
\* for jobs; a row whose key is already stored is refused by the store
ExecInsert(rows, serial, stmt) ==
    LET cols == stmt.ast.cols
        new == [c \in ColumnsOf(stmt.ast.table) |->
                   IF c \in Range(cols)
                   THEN stmt.params[CHOOSE i \in 1..Len(cols) : cols[i] = c]
                   ELSE IF c = "id" THEN serial ELSE NULL]
        drawn == IF stmt.ast.table = "jobs" THEN serial + 1 ELSE serial
        key == StoreUniqueKey[stmt.ast.table]
    IN  IF \A r \in rows : r[key] # new[key]
        THEN StoreResult("", {new}, rows \cup {new}, drawn)
        ELSE StoreResult("StoreError", {}, rows, drawn)

\* one row with the assignments of a SET clause applied
Assigned(row, set, params) ==
    [c \in DOMAIN row |->
        IF \E i \in 1..Len(set) : set[i].col = c
        THEN params[set[CHOOSE i \in 1..Len(set) : set[i].col = c].idx]
        ELSE row[c]]

\* UPDATE table SET "col"=$i, ... WHERE key = $n RETURNING ...: a SET clause that
\* names no column of the table, or one column twice, is refused, and so is an
\* update that would store one key twice
ExecUpdate(rows, serial, stmt) ==
    LET set == stmt.ast.set
        hit == Matching(rows, stmt.ast.where, stmt.params)
        new == {Assigned(r, set, stmt.params) : r \in hit}
        after == (rows \ hit) \cup new
    IN  IF \/ \E i \in 1..Len(set) : set[i].col \notin ColumnsOf(stmt.ast.table)
           \/ \E i, j \in 1..Len(set) : i # j /\ set[i].col = set[j].col
           \/ Cardinality(after) # Cardinality(rows)
           \/ ~KeysUnique(stmt.ast.table, after)
        THEN StoreResult("StoreError", {}, rows, serial)
        ELSE StoreResult("", new, after, serial)

\* DELETE FROM table WHERE key = $1 RETURNING key
ExecDelete(rows, serial, stmt) ==
    LET hit == Matching(rows, stmt.ast.where, stmt.params)
    IN  StoreResult("", hit, rows \ hit, serial)

(***************************************************************************)
(* Statements whose WHERE clause is spelt out in the text (findAll and     *)
(* filter send no params).  ast.tokens is the text after FROM <table> word *)
(* by word: WHERE, AND, OR and the comparisons between them.  NaN is what  *)
(* parseInt gives for text that starts with no digit.                      *)
(***************************************************************************)
NaN == <<>>

Kw(word) == [t |-> word]
IsKw(tok) == tok.t \in {"WHERE", "AND", "OR"}

ILike(col, pat) == [t |-> "ilike", col |-> col, pat |-> pat]
Gt(col, n) == [t |-> "gt", col |-> col, n |-> n]
Lt(col, n) == [t |-> "lt", col |-> col, n |-> n]
Ge(col, n) == [t |-> "ge", col |-> col, n |-> n]
Between(col, lo, hi) == [t |-> "between", col |-> col, lo |-> lo, hi |-> hi]
IsNull(col) == [t |-> "isnull", col |-> col]
NotNull(col) == [t |-> "notnull", col |-> col]

\* ILIKE folds case
UpperToLower == [A |-> "a", B |-> "b", N |-> "n", M |-> "m"]
Lower(c) == IF c \in DOMAIN UpperToLower THEN UpperToLower[c] ELSE c
LowerAll(chars) == [i \in 1..Len(chars) |-> Lower(chars[i])]

\* text ILIKE '%pat%' for a pattern of letters: pat occurs in text, case apart
Contains(text, pat) ==
    \E i \in 0..(Len(text) - Len(pat)) :
        SubSeq(LowerAll(text), i + 1, i + Len(pat)) = LowerAll(pat)

\* a literal as the column counts it: equity is kept in hundredths
Literal(col, n) == IF col = "equity" THEN n[1] * 100 ELSE n[1]

\* a comparison names NaN where a number should stand: the store reads a column name
NamesNaN(tok) ==
    \/ tok.t \in {"gt", "lt", "ge"} /\ tok.n = NaN
    \/ tok.t = "between" /\ (tok.lo = NaN \/ tok.hi = NaN)

\* one comparison on one row; a comparison with NULL is not true
EvalAtom(row, tok) ==
    CASE tok.t = "ilike" -> row[tok.col] # NULL /\ Contains(row[tok.col], tok.pat)
      [] tok.t = "gt" -> row[tok.col] # NULL /\ row[tok.col][1] > Literal(tok.col, tok.n)
      [] tok.t = "lt" -> row[tok.col] # NULL /\ row[tok.col][1] < Literal(tok.col, tok.n)
      [] tok.t = "ge" -> row[tok.col] # NULL /\ row[tok.col][1] >= Literal(tok.col, tok.n)
      [] tok.t = "between" ->
            /\ row[tok.col] # NULL
            /\ row[tok.col][1] >= Literal(tok.col, tok.lo)
            /\ row[tok.col][1] <= Literal(tok.col, tok.hi)
      [] tok.t = "isnull" -> row[tok.col] = NULL
      [] tok.t = "notnull" -> row[tok.col] # NULL

\* comparisons joined by AND alone
EvalAnd(row, toks) ==
    \A i \in 1..Len(toks) : IsKw(toks[i]) \/ EvalAtom(row, toks[i])

RECURSIVE EvalOr(_, _)
\* AND binds tighter than OR
EvalOr(row, toks) ==
    IF \E i \in 1..Len(toks) : toks[i].t = "OR"
    THEN LET at == CHOOSE i \in 1..Len(toks) :
                      toks[i].t = "OR" /\ \A j \in 1..(i - 1) : toks[j].t # "OR"
         IN  EvalAnd(row, SubSeq(toks, 1, at - 1))
                \/ EvalOr(row, SubSeq(toks, at + 1, Len(toks)))
    ELSE EvalAnd(row, toks)

\* what follows FROM <table> reads as SQL: nothing, or WHERE and then comparisons
\* with one AND or OR between each two
WellFormed(toks) ==
    \/ Len(toks) = 0
    \/ /\ toks[1].t = "WHERE"
       /\ Len(toks) % 2 = 0
       /\ \A i \in 2..Len(toks) :
             IF i % 2 = 0 THEN ~IsKw(toks[i]) /\ ~NamesNaN(toks[i])
             ELSE toks[i].t \in {"AND", "OR"}

\* SELECT ... FROM table [WHERE ...] [ORDER BY ...] with the clause in the text
ExecSelectText(rows, serial, stmt) ==
    LET toks == stmt.ast.tokens
    IN  IF ~WellFormed(toks) THEN StoreResult("StoreError", {}, rows, serial)
        ELSE IF Len(toks) = 0 THEN StoreResult("", rows, rows, serial)
        ELSE StoreResult("", {r \in rows : EvalOr(r, Tail(toks))}, rows, serial)

\* the order of character codes among the letters that names are written in
Alphabet == <<"A", "B", "M", "N", "a", "b", "m", "n">>
Code(c) == CHOOSE i \in 1..Len(Alphabet) : Alphabet[i] = c

RECURSIVE TextLeq(_, _)
\* text a sorts no later than text b
TextLeq(a, b) ==
    IF Len(a) = 0 THEN TRUE
    ELSE IF Len(b) = 0 THEN FALSE
    ELSE IF Head(a) # Head(b) THEN Code(Head(a)) < Code(Head(b))
    ELSE TextLeq(Tail(a), Tail(b))

\* the mutant: ORDER BY col DESC
KeyLeq_Descending(col, a, b) ==
    IF col = "name" THEN TextLeq(b, a)
    ELSE a = NULL \/ (b # NULL /\ b[1] <= a[1])

\* ORDER BY col, ascending: numbers by value with NULL last, names as text
KeyLeq(col, a, b) ==
    IF col = "name" THEN TextLeq(a, b)
    ELSE b = NULL \/ (a # NULL /\ a[1] <= b[1])

\* result.rows of a statement with ORDER BY: every order of the selected rows
\* that ascends in the column; rows equal in it come in any order
RowOrders(res, stmt) ==
    LET n == Cardinality(res.rows)
        col == stmt.ast.order
    IN  {s \in [1..n -> res.rows] :
            /\ \A i, j \in 1..n : s[i] = s[j] => i = j
            /\ \A i, j \in 1..n : i < j => KeyLeq(col, s[i][col], s[j][col])}

\* db.query(text, params) against one table
Query(rows, serial, stmt) ==
    CASE stmt.ast.verb = "SELECT" /\ "tokens" \in DOMAIN stmt.ast ->
            ExecSelectText(rows, serial, stmt)
      [] stmt.ast.verb = "SELECT" /\ "tokens" \notin DOMAIN stmt.ast ->
            ExecSelect(rows, serial, stmt)
      [] stmt.ast.verb = "INSERT" -> ExecInsert(rows, serial, stmt)
      [] stmt.ast.verb = "UPDATE" -> ExecUpdate(rows, serial, stmt)
      [] stmt.ast.verb = "DELETE" -> ExecDelete(rows, serial, stmt)

\* result.rows projected to the statement's select list
ResultRows(res, stmt) == {Project(r, stmt.ast.returning) : r \in res.rows}

\* result.rows[0]: Undefined when the statement returned no row
FirstRow(res, stmt) ==
    IF res.rows = {} THEN Undefined
    ELSE Some(Project(CHOOSE r \in res.rows : TRUE, stmt.ast.returning))

\* what a manager call comes to: the error thrown ("" when it returns), the value
\* returned, the statements it sent to the store, and the table and serial after it
Outcome(err, ret, issued, table, serial) ==
    [err |-> err, ret |-> ret, issued |-> issued, table |-> table, serial |-> serial]

(***************************************************************************)
(* models/job.js: class Job.                                               *)
(***************************************************************************)
JobReturning ==
    <<Ret("title", "title"), Ret("salary", "salary"), Ret("equity", "equity"),
      Ret("company_handle", "company_handle")>>

JobReturningWithId == <<Ret("id", "id")>> \o JobReturning

JobDupCheckStmt(data) ==
    Stmt("SELECT title, company_handle FROM jobs WHERE title = $1 AND company_handle = $2",
         [verb |-> "SELECT", table |-> "jobs",
          where |-> <<Cond("title", 1), Cond("company_handle", 2)>>,
          returning |-> <<Ret("title", "title"), Ret("company_handle", "company_handle")>>],
         <<data.title, data.company_handle>>)

JobInsertStmt(data) ==
    Stmt("INSERT INTO jobs (title, salary, equity, company_handle) VALUES ($1, $2, $3, $4) "
            \o "RETURNING id, title, salary, equity, company_handle",
         [verb |-> "INSERT", table |-> "jobs",
          cols |-> <<"title", "salary", "equity", "company_handle">>,
          returning |-> JobReturningWithId],
         <<data.title, data.salary, data.equity, data.company_handle>>)

\* the mutant: the INSERT is refused by the manager when the pair is stored by then
JobInsert_Rechecked(rows, serial, data, issued) ==
    LET ins == JobInsertStmt(data)
        res == Query(rows, serial, ins)
    IN  IF \E r \in rows : r.title = data.title /\ r.company_handle = data.company_handle
        THEN Outcome("BadRequest", Undefined, issued, rows, serial)
        ELSE Outcome("", FirstRow(res, ins), Append(issued, ins), res.table, res.serial)

\* the second half of Job.create: the INSERT and its result
JobInsert(rows, serial, data, issued) ==
    LET ins == JobInsertStmt(data)
        res == Query(rows, serial, ins)
    IN  IF res.err # ""
        THEN Outcome(res.err, Undefined, Append(issued, ins), res.table, res.serial)
        ELSE Outcome("", FirstRow(res, ins), Append(issued, ins), res.table, res.serial)

\* the mutant: create inserts without looking at the duplicate check
JobCreate_NoCheck(rows, serial, data) ==
    JobInsert(rows, serial, data, <<JobDupCheckStmt(data)>>)

\* the first half of Job.create: duplicateCheck.rows[0] is there
JobDuplicate(rows, serial, data) ==
    LET chk == JobDupCheckStmt(data)
        duplicateCheck == Query(rows, serial, chk)
    IN  FirstRow(duplicateCheck, chk) # Undefined

\* the mutant: create inserts first and looks at the duplicate check afterwards
JobCreate_InsertFirst(rows, serial, data) ==
    LET o == JobInsert(rows, serial, data, <<JobDupCheckStmt(data)>>)
    IN  IF JobDuplicate(rows, serial, data)
        THEN Outcome("BadRequest", Undefined, o.issued, o.table, o.serial)
        ELSE o

\* Job.create({ title, salary, equity, company_handle })
JobCreate(rows, serial, data) ==
    IF JobDuplicate(rows, serial, data)
    THEN Outcome("BadRequest", Undefined, <<JobDupCheckStmt(data)>>, rows, serial)
    ELSE JobInsert(rows, serial, data, <<JobDupCheckStmt(data)>>)

JobGetStmt(id) ==
    Stmt("SELECT title, salary, equity, company_handle FROM jobs WHERE id = $1",
         [verb |-> "SELECT", table |-> "jobs", where |-> <<Cond("id", 1)>>,
          returning |-> JobReturning],
         <<id>>)

\* Job.get(id)
JobGet(rows, serial, id) ==
    LET q == JobGetStmt(id)
        jobRes == Query(rows, serial, q)
        job == FirstRow(jobRes, q)
    IN  IF job = Undefined
        THEN Outcome("NotFound", Undefined, <<q>>, rows, serial)
        ELSE Outcome("", job, <<q>>, rows, serial)

JobMap == [title |-> "title", salary |-> "salary", equity |-> "equity"]

JobUpdateStmt(built, id) ==
    LET handleVarIdx == Len(built.values) + 1
    IN  Stmt("UPDATE jobs SET " \o built.setCols \o " WHERE id = $" \o ToString(handleVarIdx)
                \o " RETURNING title, salary, equity, company_handle",
             [verb |-> "UPDATE", table |-> "jobs", set |-> built.set,
              where |-> <<Cond("id", handleVarIdx)>>, returning |-> JobReturning],
             Append(built.values, id))

\* the mutant: update returns the row as it was before the UPDATE
JobUpdate_ReturnsOld(rows, serial, id, data) ==
    LET built == sqlForPartialUpdate(data, Some(JobMap))
    IN  IF built.err # ""
        THEN Outcome(built.err, Undefined, <<>>, rows, serial)
        ELSE LET q == JobUpdateStmt(built, id)
                 result == Query(rows, serial, q)
                 job == FirstRow(Query(rows, serial, JobGetStmt(id)), JobGetStmt(id))
             IN  IF result.err # ""
                 THEN Outcome(result.err, Undefined, <<q>>, result.table, result.serial)
                 ELSE IF job = Undefined
                 THEN Outcome("NotFound", Undefined, <<q>>, result.table, result.serial)
                 ELSE Outcome("", job, <<q>>, result.table, result.serial)

\* Job.update(id, data)
JobUpdate(rows, serial, id, data) ==
    LET built == sqlForPartialUpdate(data, Some(JobMap))
    IN  IF built.err # ""
        THEN Outcome(built.err, Undefined, <<>>, rows, serial)
        ELSE LET q == JobUpdateStmt(built, id)
                 result == Query(rows, serial, q)
                 job == FirstRow(result, q)
             IN  IF result.err # ""
                 THEN Outcome(result.err, Undefined, <<q>>, result.table, result.serial)
                 ELSE IF job = Undefined
                 THEN Outcome("NotFound", Undefined, <<q>>, result.table, result.serial)
                 ELSE Outcome("", job, <<q>>, result.table, result.serial)

JobRemoveStmt(id) ==
    Stmt("DELETE FROM jobs WHERE id = $1 RETURNING id",
         [verb |-> "DELETE", table |-> "jobs", where |-> <<Cond("id", 1)>>,
          returning |-> <<Ret("id", "id")>>],
         <<id>>)

\* the mutant: remove does not look at what the DELETE returned
JobRemove_Silent(rows, serial, id) ==
    LET q == JobRemoveStmt(id)
        result == Query(rows, serial, q)
    IN  Outcome("", Undefined, <<q>>, result.table, result.serial)

\* Job.remove(id): returns undefined
JobRemove(rows, serial, id) ==
    LET q == JobRemoveStmt(id)
        result == Query(rows, serial, q)
        job == FirstRow(result, q)
    IN  IF job = Undefined
        THEN Outcome("NotFound", Undefined, <<q>>, result.table, result.serial)
        ELSE Outcome("", Undefined, <<q>>, result.table, result.serial)

\* a piece of statement text with the words the store reads in it
Frag(text, tokens) == [text |-> text, tokens |-> tokens]
NoFrag == Frag("", <<>>)
Cat(f, g) == Frag(f.text \o g.text, f.tokens \o g.tokens)

TrueText == <<"t", "r", "u", "e">>
FalseText == <<"f", "a", "l", "s", "e">>

JobFindAllStmt ==
    Stmt("SELECT id, title, salary, equity, company_handle FROM jobs ORDER BY salary",
         [verb |-> "SELECT", table |-> "jobs", tokens |-> <<>>, order |-> "salary",
          returning |-> JobReturningWithId],
         <<>>)

\* the orders jobsRes.rows can come in
JobFindAllOrders(rows, serial) ==
    RowOrders(Query(rows, serial, JobFindAllStmt), JobFindAllStmt)

\* Job.findAll(), jobsRes.rows being ord
JobFindAll(rows, serial, ord) ==
    Outcome("", [i \in 1..Len(ord) |-> Project(ord[i], JobReturningWithId)],
            <<JobFindAllStmt>>, rows, serial)

JobTitleFrag(filters) ==
    Frag(" title ILIKE '%" \o Text(Get(filters, "title")) \o "%'",
         <<ILike("title", Get(filters, "title"))>>)

JobMinSalaryFrag(filters) ==
    Frag(" salary > " \o NumberText(ParseInt(Get(filters, "minSalary"))),
         <<Gt("salary", ParseInt(Get(filters, "minSalary")))>>)

JobEquityFrag ==
    Frag(" equity IS NOT NULL AND equity > 0",
         <<NotNull("equity"), Kw("AND"), Gt("equity", <<0>>)>>)

JobAnyEquityFrag ==
    Frag(" equity >= 0 OR equity IS NULL",
         <<Ge("equity", <<0>>), Kw("OR"), IsNull("equity")>>)

\* the branch for exactly one filter
JobFilterOne(filters) ==
    IF Has(filters, "title") THEN Cat(Frag(" WHERE", <<Kw("WHERE")>>), JobTitleFrag(filters))
    ELSE IF Has(filters, "minSalary")
    THEN Cat(Frag(" WHERE", <<Kw("WHERE")>>), JobMinSalaryFrag(filters))
    ELSE Cat(Frag(" WHERE", <<Kw("WHERE")>>), JobEquityFrag)

\* one turn of the loop over Object.keys(filters), its separator included
JobFilterTurn(filters, counter) ==
    LET filter == filters[counter].k
        part == IF filter = "title" THEN JobTitleFrag(filters)
                ELSE IF filter = "minSalary" THEN JobMinSalaryFrag(filters)
                ELSE IF filter = "hasEquity"
                THEN IF Get(filters, "hasEquity") = TrueText THEN JobEquityFrag
                     ELSE IF Get(filters, "hasEquity") = FalseText THEN JobAnyEquityFrag
                     ELSE NoFrag
                ELSE NoFrag
    IN  IF counter < Len(filters) THEN Cat(part, Frag(" AND", <<Kw("AND")>>)) ELSE part

RECURSIVE JobFilterLoop(_, _)
JobFilterLoop(filters, counter) ==
    IF counter > Len(filters) THEN NoFrag
    ELSE Cat(JobFilterTurn(filters, counter), JobFilterLoop(filters, counter + 1))

JobFilterStmt(filters) ==
    LET where == IF Len(filters) = 1 THEN JobFilterOne(filters)
                 ELSE IF Len(filters) > 1
                 THEN Cat(Frag(" WHERE", <<Kw("WHERE")>>), JobFilterLoop(filters, 1))
                 ELSE NoFrag
    IN  Stmt("SELECT id, title, salary, equity, company_handle FROM jobs" \o where.text,
             [verb |-> "SELECT", table |-> "jobs", tokens |-> where.tokens,
              returning |-> JobReturningWithId],
             <<>>)

\* Job.filter(filters): the rows come in no stated order
JobFilter(rows, serial, filters) ==
    LET sqlStmtForFilter == JobFilterStmt(filters)
        filteredRes == Query(rows, serial, sqlStmtForFilter)
    IN  IF filteredRes.err # ""
        THEN Outcome(filteredRes.err, Undefined, <<sqlStmtForFilter>>, rows, serial)
        ELSE Outcome("", ResultRows(filteredRes, sqlStmtForFilter),
                     <<sqlStmtForFilter>>, rows, serial)

(***************************************************************************)
(* models/company.js: class Company.                                       *)
(***************************************************************************)
CompanyReturning ==
    <<Ret("handle", "handle"), Ret("name", "name"), Ret("description", "description"),
      Ret("num_employees", "numEmployees"), Ret("logo_url", "logoUrl")>>

CompanyDupCheckStmt(data) ==
    Stmt("SELECT handle FROM companies WHERE handle = $1",
         [verb |-> "SELECT", table |-> "companies", where |-> <<Cond("handle", 1)>>,
          returning |-> <<Ret("handle", "handle")>>],
         <<data.handle>>)

CompanyInsertStmt(data) ==
    Stmt("INSERT INTO companies (handle, name, description, num_employees, logo_url) "
            \o "VALUES ($1, $2, $3, $4, $5) RETURNING handle, name, description, "
            \o "num_employees AS \"numEmployees\", logo_url AS \"logoUrl\"",
         [verb |-> "INSERT", table |-> "companies",
          cols |-> <<"handle", "name", "description", "num_employees", "logo_url">>,
          returning |-> CompanyReturning],
         <<data.handle, data.name, data.description, data.numEmployees, data.logoUrl>>)

\* the second half of Company.create: the INSERT and its result
CompanyInsert(rows, serial, data, issued) ==
    LET ins == CompanyInsertStmt(data)
        res == Query(rows, serial, ins)
    IN  IF res.err # ""
        THEN Outcome(res.err, Undefined, Append(issued, ins), res.table, res.serial)
        ELSE Outcome("", FirstRow(res, ins), Append(issued, ins), res.table, res.serial)

\* the first half of Company.create: duplicateCheck.rows[0] is there
CompanyDuplicate(rows, serial, data) ==
    LET chk == CompanyDupCheckStmt(data)
        duplicateCheck == Query(rows, serial, chk)
    IN  FirstRow(duplicateCheck, chk) # Undefined

\* Company.create({ handle, name, description, numEmployees, logoUrl })
CompanyCreate(rows, serial, data) ==
    IF CompanyDuplicate(rows, serial, data)
    THEN Outcome("BadRequest", Undefined, <<CompanyDupCheckStmt(data)>>, rows, serial)
    ELSE CompanyInsert(rows, serial, data, <<CompanyDupCheckStmt(data)>>)

CompanyGetStmt(handle) ==
    Stmt("SELECT handle, name, description, num_employees AS \"numEmployees\", "
            \o "logo_url AS \"logoUrl\" FROM companies WHERE handle = $1",
         [verb |-> "SELECT", table |-> "companies", where |-> <<Cond("handle", 1)>>,
          returning |-> CompanyReturning],
         <<handle>>)

\* Company.get(handle)
CompanyGet(rows, serial, handle) ==
    LET q == CompanyGetStmt(handle)
        companyRes == Query(rows, serial, q)
        company == FirstRow(companyRes, q)
    IN  IF company = Undefined
        THEN Outcome("NotFound", Undefined, <<q>>, rows, serial)
        ELSE Outcome("", company, <<q>>, rows, serial)

CompanyMap == [numEmployees |-> "num_employees", logoUrl |-> "logo_url"]

CompanyUpdateStmt(built, handle) ==
    LET handleVarIdx == Len(built.values) + 1
    IN  Stmt("UPDATE companies SET " \o built.setCols \o " WHERE handle = $"
                \o ToString(handleVarIdx) \o " RETURNING handle, name, description, "
                \o "num_employees AS \"numEmployees\", logo_url AS \"logoUrl\"",
             [verb |-> "UPDATE", table |-> "companies", set |-> built.set,
              where |-> <<Cond("handle", handleVarIdx)>>, returning |-> CompanyReturning],
             Append(built.values, handle))

\* Company.update(handle, data)
CompanyUpdate(rows, serial, handle, data) ==
    LET built == sqlForPartialUpdate(data, Some(CompanyMap))
    IN  IF built.err # ""
        THEN Outcome(built.err, Undefined, <<>>, rows, serial)
        ELSE LET q == CompanyUpdateStmt(built, handle)
                 result == Query(rows, serial, q)
                 company == FirstRow(result, q)
             IN  IF result.err # ""
                 THEN Outcome(result.err, Undefined, <<q>>, result.table, result.serial)
                 ELSE IF company = Undefined
                 THEN Outcome("NotFound", Undefined, <<q>>, result.table, result.serial)
                 ELSE Outcome("", company, <<q>>, result.table, result.serial)

CompanyRemoveStmt(handle) ==
    Stmt("DELETE FROM companies WHERE handle = $1 RETURNING handle",
         [verb |-> "DELETE", table |-> "companies", where |-> <<Cond("handle", 1)>>,
          returning |-> <<Ret("handle", "handle")>>],
         <<handle>>)

\* Company.remove(handle): returns undefined
CompanyRemove(rows, serial, handle) ==
    LET q == CompanyRemoveStmt(handle)
        result == Query(rows, serial, q)
        company == FirstRow(result, q)
    IN  IF company = Undefined
        THEN Outcome("NotFound", Undefined, <<q>>, result.table, result.serial)
        ELSE Outcome("", Undefined, <<q>>, result.table, result.serial)

CompanyFindAllStmt ==
    Stmt("SELECT handle, name, description, num_employees AS \"numEmployees\", "
            \o "logo_url AS \"logoUrl\" FROM companies ORDER BY name",
         [verb |-> "SELECT", table |-> "companies", tokens |-> <<>>, order |-> "name",
          returning |-> CompanyReturning],
         <<>>)

\* the orders companiesRes.rows can come in
CompanyFindAllOrders(rows, serial) ==
    RowOrders(Query(rows, serial, CompanyFindAllStmt), CompanyFindAllStmt)

\* Company.findAll(), companiesRes.rows being ord
CompanyFindAll(rows, serial, ord) ==
    Outcome("", [i \in 1..Len(ord) |-> Project(ord[i], CompanyReturning)],
            <<CompanyFindAllStmt>>, rows, serial)

\* the name filter, when there is one
CompanyNameFrag(filters) ==
    IF Has(filters, "name")
    THEN Frag(" WHERE name ILIKE '%" \o Text(Get(filters, "name")) \o "%'",
              <<Kw("WHERE"), ILike("name", Get(filters, "name"))>>)
    ELSE NoFrag

\* "separating items in sql query statement"
CompanySeparatorFrag(filters) ==
    IF Len(filters) > 1 /\ Has(filters, "name") THEN Frag(" AND", <<Kw("AND")>>)
    ELSE IF ~Has(filters, "name") THEN Frag(" WHERE", <<Kw("WHERE")>>)
    ELSE NoFrag

\* a comparison of two parseInt results: not true when either is NaN
NumLess(a, b) == a # <<>> /\ b # <<>> /\ a[1] < b[1]

\* the mutant: the bounds are compared only when no name filter is given
CompanyRangeRefused_NoName(filters) ==
    /\ ~Has(filters, "name")
    /\ Has(filters, "minEmployees") /\ Has(filters, "maxEmployees")
    /\ NumLess(ParseInt(Get(filters, "maxEmployees")), ParseInt(Get(filters, "minEmployees")))

\* both bounds are there and parseInt(max) < parseInt(min)
CompanyRangeRefused(filters) ==
    /\ Has(filters, "minEmployees") /\ Has(filters, "maxEmployees")
    /\ NumLess(ParseInt(Get(filters, "maxEmployees")), ParseInt(Get(filters, "minEmployees")))

CompanyBoundsFrag(filters) ==
    IF Has(filters, "minEmployees") /\ Has(filters, "maxEmployees")
    THEN Frag(" num_employees BETWEEN " \o NumberText(ParseInt(Get(filters, "minEmployees")))
                  \o " AND " \o NumberText(ParseInt(Get(filters, "maxEmployees"))),
              <<Between("num_employees", ParseInt(Get(filters, "minEmployees")),
                        ParseInt(Get(filters, "maxEmployees")))>>)
    ELSE IF Has(filters, "minEmployees")
    THEN Frag(" num_employees > " \o NumberText(ParseInt(Get(filters, "minEmployees"))),
              <<Gt("num_employees", ParseInt(Get(filters, "minEmployees")))>>)
    ELSE IF Has(filters, "maxEmployees")
    THEN Frag(" num_employees < " \o NumberText(ParseInt(Get(filters, "maxEmployees"))),
              <<Lt("num_employees", ParseInt(Get(filters, "maxEmployees")))>>)
    ELSE NoFrag

CompanyFilterStmt(filters) ==
    LET where == Cat(CompanyNameFrag(filters),
                     Cat(CompanySeparatorFrag(filters), CompanyBoundsFrag(filters)))
    IN  Stmt("SELECT handle, name, description, num_employees AS \"numEmployees\", "
                \o "logo_url AS \"logoUrl\" FROM companies" \o where.text,
             [verb |-> "SELECT", table |-> "companies", tokens |-> where.tokens,
              returning |-> CompanyReturning],
             <<>>)

\* Company.filter(filters): the rows come in no stated order
CompanyFilter(rows, serial, filters) ==
    LET sqlStmtForFilter == CompanyFilterStmt(filters)
        filteredRes == Query(rows, serial, sqlStmtForFilter)
    IN  IF CompanyRangeRefused(filters)
        THEN Outcome("BadRequest", Undefined, <<>>, rows, serial)
        ELSE IF filteredRes.err # ""
        THEN Outcome(filteredRes.err, Undefined, <<sqlStmtForFilter>>, rows, serial)
        ELSE Outcome("", ResultRows(filteredRes, sqlStmtForFilter),
                     <<sqlStmtForFilter>>, rows, serial)

(***************************************************************************)
(* The call record.                                                        *)
(***************************************************************************)
NoCall == [op |-> "none", arg |-> <<>>, err |-> "", ret |-> <<>>, issued |-> <<>>]

\* no call is under way: the caller has taken the outcome of the one before
Idle == last.op = "none"

Call(op, arg, err, ret, issued) ==
    [op |-> op, arg |-> arg, err |-> err, ret |-> ret, issued |-> issued]

(***************************************************************************)
(* SpecSql: sqlForPartialUpdate as a pure function of its two arguments.   *)
(***************************************************************************)
SqlFields == {"firstName", "isAdmin", "age"}
SqlValues == {NULL, Some(1), Some(2)}

\* the name-map of helpers/sql.test.js, the empty map, and a map of one field
TestMap == [firstName |-> "first_name", isAdmin |-> "is_admin"]
EmptyMap == [k \in {} |-> ""]
AgeMap == [age |-> "years"]
SqlMaps == {Undefined, Some(TestMap), Some(EmptyMap), Some(AgeMap)}

SqlInputs == Objects(SqlFields, SqlValues, MaxFields)

SqlCall(data, jsToSql) ==
    /\ Idle
    /\ LET r == sqlForPartialUpdate(data, jsToSql)
       IN  last' = Call("sqlForPartialUpdate", [data |-> data, jsToSql |-> jsToSql],
                        r.err, r, <<>>)
    /\ UNCHANGED <<jobs, companies, nextId>>

\* the awaited promise settles and the caller goes on
Return ==
    /\ ~Idle
    /\ last' = NoCall
    /\ UNCHANGED <<jobs, companies, nextId>>

NoProcs ==
    [p \in 1..MaxCalls |->
        [pc |-> "idle", entity |-> "", data |-> <<>>, err |-> "", inserted |-> FALSE]]

\* jobs, companies: the keys a create has stored with no remove since;
\* freshJobs, freshCompanies: those with no remove and no update since
NoneCreated == [jobs |-> {}, companies |-> {}, freshJobs |-> {}, freshCompanies |-> {}]

Init ==
    /\ jobs = {}
    /\ companies = {}
    /\ nextId = 1
    /\ last = NoCall
    /\ procs = NoProcs
    /\ created = NoneCreated

NextSql ==
    /\ \/ \E data \in SqlInputs, m \in SqlMaps : SqlCall(data, m)
       \/ Return
    /\ UNCHANGED <<procs, created>>

SpecSql == Init /\ [][NextSql]_vars


(***************************************************************************)
(* The manager calls as actions: one call runs from start to end with no   *)
(* other call in between (non-concurrent execution).  The outcome of a     *)
(* call stays in `last` until the caller takes it (Return); the next call  *)
(* starts after that.                                                      *)
(***************************************************************************)
JobCreateCall(data) ==
    LET o == JobCreate(jobs, nextId, data)
    IN  /\ Idle
        /\ o.err = "BadRequest" \/ nextId <= MaxId
        /\ jobs' = o.table
        /\ nextId' = o.serial
        /\ last' = Call("Job.create", data, o.err, o.ret, o.issued)
        /\ UNCHANGED companies

JobGetCall(id) ==
    LET o == JobGet(jobs, nextId, id)
    IN  /\ Idle
        /\ last' = Call("Job.get", [id |-> id], o.err, o.ret, o.issued)
        /\ UNCHANGED <<jobs, companies, nextId>>

JobUpdateCall(id, data) ==
    LET o == JobUpdate(jobs, nextId, id, data)
    IN  /\ Idle
        /\ jobs' = o.table
        /\ last' = Call("Job.update", [id |-> id, data |-> data], o.err, o.ret, o.issued)
        /\ UNCHANGED <<companies, nextId>>

JobRemoveCall(id) ==
    LET o == JobRemove(jobs, nextId, id)
    IN  /\ Idle
        /\ jobs' = o.table
        /\ last' = Call("Job.remove", [id |-> id], o.err, o.ret, o.issued)
        /\ UNCHANGED <<companies, nextId>>

CompanyCreateCall(data) ==
    LET o == CompanyCreate(companies, nextId, data)
    IN  /\ Idle
        /\ companies' = o.table
        /\ last' = Call("Company.create", data, o.err, o.ret, o.issued)
        /\ UNCHANGED <<jobs, nextId>>

CompanyGetCall(handle) ==
    LET o == CompanyGet(companies, nextId, handle)
    IN  /\ Idle
        /\ last' = Call("Company.get", [handle |-> handle], o.err, o.ret, o.issued)
        /\ UNCHANGED <<jobs, companies, nextId>>

CompanyUpdateCall(handle, data) ==
    LET o == CompanyUpdate(companies, nextId, handle, data)
    IN  /\ Idle
        /\ companies' = o.table
        /\ last' = Call("Company.update", [handle |-> handle, data |-> data],
                        o.err, o.ret, o.issued)
        /\ UNCHANGED <<jobs, nextId>>

CompanyRemoveCall(handle) ==
    LET o == CompanyRemove(companies, nextId, handle)
    IN  /\ Idle
        /\ companies' = o.table
        /\ last' = Call("Company.remove", [handle |-> handle], o.err, o.ret, o.issued)
        /\ UNCHANGED <<jobs, nextId>>

(***************************************************************************)
(* Spec: any sequence of non-concurrent create, get, update and remove     *)
(* calls of both managers, from the empty store.                           *)
(***************************************************************************)
Entry(k, v) == [k |-> k, v |-> v]

Titles == {<<"a">>, <<"b">>}
Handles == {"c1", "c2"}

JobInputs ==
    [title : Titles, salary : {Some(1)}, equity : {NULL}, company_handle : Handles]

JobIds == 1..(MaxId + 1)

\* update payloads (a list: their values are of several types): empty, one
\* field, two fields, and a field that is no column
JobPayloads ==
    << <<>>,
      <<Entry("title", <<"a">>)>>,
      <<Entry("title", <<"b">>)>>,
      <<Entry("salary", NULL)>>,
      <<Entry("salary", NULL), Entry("title", <<"b">>)>>,
      <<Entry("color", Some(1))>> >>

CompanyInputs ==
    [handle : Handles, name : {<<"n">>}, description : {"d"},
     numEmployees : {Some(1)}, logoUrl : {NULL}]

CompanyPayloads ==
    << <<>>,
      <<Entry("numEmployees", NULL)>>,
      <<Entry("numEmployees", Some(1)), Entry("name", <<"n">>)>>,
      <<Entry("color", Some(1))>>,
      <<Entry("handle", "c1")>>,
      <<Entry("handle", "c2")>> >>

\* sqlForPartialUpdate called on its own, as helpers/sql.test.js calls it
SqlProbes == {<<>>, <<Entry("age", Some(1))>>}

Next ==
    /\ \/ \E data \in SqlProbes, m \in SqlMaps : SqlCall(data, m)
       \/ \E data \in JobInputs : JobCreateCall(data)
       \/ \E id \in JobIds : JobGetCall(id)
       \/ \E id \in JobIds, i \in DOMAIN JobPayloads : JobUpdateCall(id, JobPayloads[i])
       \/ \E id \in JobIds : JobRemoveCall(id)
       \/ \E data \in CompanyInputs : CompanyCreateCall(data)
       \/ \E handle \in Handles : CompanyGetCall(handle)
       \/ \E handle \in Handles, i \in DOMAIN CompanyPayloads :
               CompanyUpdateCall(handle, CompanyPayloads[i])
       \/ \E handle \in Handles : CompanyRemoveCall(handle)
       \/ Return
    /\ UNCHANGED <<procs, created>>

Spec == Init /\ [][Next]_vars

(***************************************************************************)
(* SpecDup: the create, update and remove calls of Spec with the history   *)
(* of creates kept, to speak of a second create of a key with no delete in *)
(* between.                                                                *)
(***************************************************************************)
DupJobPayloads == {<<Entry("title", <<"a">>)>>, <<Entry("title", <<"b">>)>>}
DupCompanyPayloads == {<<Entry("name", <<"n">>)>>}

JobKey(data) == <<data.title, data.company_handle>>

\* `created` after the call that `call` records
Track(call) ==
    IF call.err # "" THEN created
    ELSE CASE call.op = "Job.create" ->
                [created EXCEPT !.jobs = @ \cup {JobKey(call.arg)},
                                !.freshJobs = @ \cup {JobKey(call.arg)}]
           [] call.op = "Company.create" ->
                [created EXCEPT !.companies = @ \cup {call.arg.handle},
                                !.freshCompanies = @ \cup {call.arg.handle}]
           [] call.op \in {"Job.remove", "Company.remove"} -> NoneCreated
           [] call.op \in {"Job.update", "Company.update"} ->
                [created EXCEPT !.freshJobs = {}, !.freshCompanies = {}]
           [] OTHER -> created

NextDup ==
    /\ \/ \E data \in JobInputs : JobCreateCall(data)
       \/ \E id \in JobIds, data \in DupJobPayloads : JobUpdateCall(id, data)
       \/ \E id \in JobIds : JobRemoveCall(id)
       \/ \E data \in CompanyInputs : CompanyCreateCall(data)
       \/ \E handle \in Handles, data \in DupCompanyPayloads : CompanyUpdateCall(handle, data)
       \/ \E handle \in Handles : CompanyRemoveCall(handle)
       \/ Return
    /\ created' = Track(last')
    /\ UNCHANGED procs

SpecDup == Init /\ [][NextDup]_vars

(***************************************************************************)
(* SpecRace: create calls that run at once.  A call is suspended at each   *)
(* of its two awaits of db.query: the duplicate check, then the INSERT;    *)
(* other calls run in between.                                             *)
(***************************************************************************)
RaceProc(pc, entity, data, err, inserted) ==
    [pc |-> pc, entity |-> entity, data |-> data, err |-> err, inserted |-> inserted]

\* Job.create up to its first await: the duplicate check and the throw
RaceJobCheck(p, data) ==
    /\ procs[p].pc = "idle"
    /\ procs' = [procs EXCEPT ![p] =
            IF JobDuplicate(jobs, nextId, data)
            THEN RaceProc("done", "Job", data, "BadRequest", FALSE)
            ELSE RaceProc("checked", "Job", data, "", FALSE)]
    /\ UNCHANGED <<jobs, companies, nextId, last, created>>

\* Job.create from its second await on: the INSERT
RaceJobInsert(p) ==
    /\ procs[p].pc = "checked"
    /\ procs[p].entity = "Job"
    /\ nextId <= MaxId
    /\ LET o == JobInsert(jobs, nextId, procs[p].data, <<>>)
       IN  /\ jobs' = o.table
           /\ nextId' = o.serial
           /\ procs' = [procs EXCEPT ![p] =
                   RaceProc("done", "Job", procs[p].data, o.err, TRUE)]
    /\ UNCHANGED <<companies, last, created>>

\* Company.create up to its first await
RaceCompanyCheck(p, data) ==
    /\ procs[p].pc = "idle"
    /\ procs' = [procs EXCEPT ![p] =
            IF CompanyDuplicate(companies, nextId, data)
            THEN RaceProc("done", "Company", data, "BadRequest", FALSE)
            ELSE RaceProc("checked", "Company", data, "", FALSE)]
    /\ UNCHANGED <<jobs, companies, nextId, last, created>>

\* Company.create from its second await on
RaceCompanyInsert(p) ==
    /\ procs[p].pc = "checked"
    /\ procs[p].entity = "Company"
    /\ LET o == CompanyInsert(companies, nextId, procs[p].data, <<>>)
       IN  /\ companies' = o.table
           /\ procs' = [procs EXCEPT ![p] =
                   RaceProc("done", "Company", procs[p].data, o.err, TRUE)]
    /\ UNCHANGED <<jobs, nextId, last, created>>

RaceNames == {<<"n">>, <<"m">>}

RaceCompanyInputs ==
    [handle : Handles, name : RaceNames, description : {"d"},
     numEmployees : {Some(1)}, logoUrl : {NULL}]

NextRace ==
    \E p \in 1..MaxCalls :
        \/ \E data \in JobInputs : RaceJobCheck(p, data)
        \/ RaceJobInsert(p)
        \/ \E data \in RaceCompanyInputs : RaceCompanyCheck(p, data)
        \/ RaceCompanyInsert(p)

SpecRace == Init /\ [][NextRace]_vars

(***************************************************************************)
(* SpecFilter: findAll and filter over the stores that create builds.      *)
(***************************************************************************)
JobFindAllCall ==
    /\ Idle
    /\ \E ord \in JobFindAllOrders(jobs, nextId) :
          LET o == JobFindAll(jobs, nextId, ord)
          IN  last' = Call("Job.findAll", <<>>, o.err, o.ret, o.issued)
    /\ UNCHANGED <<jobs, companies, nextId>>

JobFilterCall(filters) ==
    LET o == JobFilter(jobs, nextId, filters)
    IN  /\ Idle
        /\ last' = Call("Job.filter", [filters |-> filters], o.err, o.ret, o.issued)
        /\ UNCHANGED <<jobs, companies, nextId>>

CompanyFindAllCall ==
    /\ Idle
    /\ \E ord \in CompanyFindAllOrders(companies, nextId) :
          LET o == CompanyFindAll(companies, nextId, ord)
          IN  last' = Call("Company.findAll", <<>>, o.err, o.ret, o.issued)
    /\ UNCHANGED <<jobs, companies, nextId>>

CompanyFilterCall(filters) ==
    LET o == CompanyFilter(companies, nextId, filters)
    IN  /\ Idle
        /\ last' = Call("Company.filter", [filters |-> filters], o.err, o.ret, o.issued)
        /\ UNCHANGED <<jobs, companies, nextId>>

\* the filter objects over some (key, value) entries: every order of every choice of keys
FilterObjects(entries) ==
    LET n == Cardinality({e.k : e \in entries})
        all == UNION {[1..m -> entries] : m \in 0..n}
    IN  {f \in all : \A i, j \in 1..Len(f) : f[i].k = f[j].k => i = j}

JobFilterEntries ==
    {Entry("title", <<"A">>), Entry("minSalary", <<"1">>),
     Entry("hasEquity", TrueText), Entry("hasEquity", FalseText)}

CompanyFilterEntries ==
    {Entry("name", <<"N">>),
     Entry("minEmployees", <<"2">>), Entry("minEmployees", <<"1", "0">>),
     Entry("maxEmployees", <<"1">>), Entry("maxEmployees", <<"1", "0">>)}

FilterJobInputs ==
    [title : Titles, salary : {Some(1), Some(2)}, equity : {NULL, Some(0), Some(50)},
     company_handle : {"c1"}]

FilterCompanyInputs ==
    [handle : Handles, name : RaceNames, description : {"d"},
     numEmployees : {Some(2)}, logoUrl : {NULL}]

NextFilter ==
    /\ \/ \E data \in FilterJobInputs : JobCreateCall(data)
       \/ \E data \in FilterCompanyInputs : CompanyCreateCall(data)
       \/ JobFindAllCall
       \/ \E filters \in FilterObjects(JobFilterEntries) : JobFilterCall(filters)
       \/ CompanyFindAllCall
       \/ \E filters \in FilterObjects(CompanyFilterEntries) : CompanyFilterCall(filters)
       \/ Return
    /\ UNCHANGED <<procs, created>>

SpecFilter == Init /\ [][NextFilter]_vars

(***************************************************************************)
(* SpecFindAll: findAll over the stores that create and remove build, with *)
(* salaries that are NULL among them.                                      *)
(***************************************************************************)
FindAllJobInputs ==
    [title : Titles, salary : {NULL, Some(1), Some(2)}, equity : {NULL},
     company_handle : Handles]

NextFindAll ==
    /\ \/ \E data \in FindAllJobInputs : JobCreateCall(data)
       \/ \E id \in 1..MaxId : JobRemoveCall(id)
       \/ \E data \in RaceCompanyInputs : CompanyCreateCall(data)
       \/ \E handle \in Handles : CompanyRemoveCall(handle)
       \/ JobFindAllCall
       \/ CompanyFindAllCall
       \/ Return
    /\ UNCHANGED <<procs, created>>

SpecFindAll == Init /\ [][NextFindAll]_vars

(***************************************************************************)
(* SpecReject: every kind of call, with the inputs that are turned down:   *)
(* a second create of a key, an empty update payload, an identifier that   *)
(* is not stored, a range of employees that is empty.                      *)
(***************************************************************************)
RejectFilters ==
    {<<Entry("minEmployees", <<"2">>)>>,
     <<Entry("minEmployees", <<"2">>), Entry("maxEmployees", <<"1">>)>>}

NextReject ==
    /\ \/ \E data \in JobInputs : JobCreateCall(data)
       \/ \E id \in JobIds : JobGetCall(id)
       \/ \E id \in JobIds, data \in {<<>>} \cup DupJobPayloads : JobUpdateCall(id, data)
       \/ \E id \in JobIds : JobRemoveCall(id)
       \/ JobFilterCall(<<>>)
       \/ \E data \in CompanyInputs : CompanyCreateCall(data)
       \/ \E handle \in Handles : CompanyGetCall(handle)
       \/ \E handle \in Handles, data \in {<<>>} \cup DupCompanyPayloads :
               CompanyUpdateCall(handle, data)
       \/ \E handle \in Handles : CompanyRemoveCall(handle)
       \/ \E filters \in RejectFilters : CompanyFilterCall(filters)
       \/ Return
    /\ UNCHANGED <<procs, created>>

SpecReject == Init /\ [][NextReject]_vars

(***************************************************************************)
(* Claims.                                                                 *)
(***************************************************************************)
\* the column the claim gives a field: the map's entry when there is one
ClaimedColumn(m, field) == IF field \in DOMAIN m THEN m[field] ELSE field

RECURSIVE ClaimedSetCols(_, _, _)
\* "<col1>"=$1, "<col2>"=$2, ... for the first n fields of data
ClaimedSetCols(data, m, n) ==
    LET piece == "\"" \o ClaimedColumn(m, data[n].k) \o "\"=$" \o ToString(n)
    IN  IF n = 1 THEN piece ELSE ClaimedSetCols(data, m, n - 1) \o ", " \o piece

\* C1: for data of n >= 1 fields and a name-map, sqlForPartialUpdate returns
\* setCols with exactly n assignments, the i-th being "<col>"=$i (1-based, in
\* field order) with <col> the map's entry for the field or else the field name,
\* and values of length n holding the field values in the same order.
C1_SetColsAndValues ==
    (last.op = "sqlForPartialUpdate" /\ Len(last.arg.data) >= 1
        /\ last.arg.jsToSql # Undefined) =>
    LET data == last.arg.data
        m == last.arg.jsToSql[1]
        n == Len(data)
    IN  /\ last.err = ""
        /\ Len(last.ret.set) = n
        /\ \A i \in 1..n :
              last.ret.set[i] = [col |-> ClaimedColumn(m, data[i].k), idx |-> i]
        /\ last.ret.setCols = ClaimedSetCols(data, m, n)
        /\ Len(last.ret.values) = n
        /\ \A i \in 1..n : last.ret.values[i] = data[i].v

\* the call of helpers/sql.test.js with a second field the map does not name
C1_Witness ==
    /\ last.op = "sqlForPartialUpdate"
    /\ Keys(last.arg.data) = <<"firstName", "age">>
    /\ last.arg.jsToSql = Some(TestMap)
    /\ last.ret.setCols = "\"first_name\"=$1, \"age\"=$2"
    /\ last.ret.values = <<Some(2), Some(1)>>

\* C2: sqlForPartialUpdate on an empty field set fails with BadRequest whatever
\* the name-map is, none included; so Job.update and Company.update with an
\* empty payload fail with BadRequest and send no statement to the store.
C2_EmptyPayloadBadRequest ==
    /\ (last.op = "sqlForPartialUpdate" /\ Len(last.arg.data) = 0) =>
            last.err = "BadRequest"
    /\ (last.op \in {"Job.update", "Company.update"} /\ Len(last.arg.data) = 0) =>
            (last.err = "BadRequest" /\ last.issued = <<>>)

\* Job.update with an empty payload on a job that is stored
C2_Witness ==
    /\ last.op = "Job.update"
    /\ Len(last.arg.data) = 0
    /\ \E j \in jobs : j.id = last.arg.id
    /\ last.err = "BadRequest"

JobPresent(id) == \E j \in jobs : j.id = id
CompanyPresent(handle) == \E c \in companies : c.handle = handle

\* every field of the payload is a column of the table, under the name-map
NamesColumns(data, m, table) ==
    \A i \in 1..Len(data) : ClaimedColumn(m, data[i].k) \in ColumnsOf(table)

C6_UniqueKeys ==
    /\ \A j1, j2 \in jobs :
          (j1.title = j2.title /\ j1.company_handle = j2.company_handle) => j1 = j2
    /\ \A c1, c2 \in companies : c1.handle = c2.handle => c1 = c2

StoredHandles(rows) == {c.handle : c \in rows}

\* C7: no call of Company.update, whatever the payload, changes the handle of a
\* stored company.
C7_HandleImmutable ==
    [][ last'.op = "Company.update" =>
            StoredHandles(companies') = StoredHandles(companies) ]_vars

\* C4 as stated: a Job.create of a (title, company_handle) pair that an earlier
\* Job.create stored, with no delete since, fails with BadRequest and inserts no
\* row; likewise a Company.create of a handle created before.
C4_SecondCreateFails_NoDelete ==
    [][ /\ (last'.op = "Job.create" /\ JobKey(last'.arg) \in created.jobs) =>
                (last'.err = "BadRequest" /\ jobs' = jobs)
        /\ (last'.op = "Company.create" /\ last'.arg.handle \in created.companies) =>
                (last'.err = "BadRequest" /\ companies' = companies)
      ]_vars

\* C4 (amended): a Job.create of a (title, company_handle) pair that an earlier
\* Job.create stored, with no delete and no update since, fails with BadRequest
\* and inserts no row; likewise a Company.create of a handle created before.
C4_SecondCreateFails ==
    [][ /\ (last'.op = "Job.create" /\ JobKey(last'.arg) \in created.freshJobs) =>
                (last'.err = "BadRequest" /\ jobs' = jobs)
        /\ (last'.op = "Company.create" /\ last'.arg.handle \in created.freshCompanies) =>
                (last'.err = "BadRequest" /\ companies' = companies)
      ]_vars

\* the second Job.create of a pair, refused
C4_Witness ==
    /\ last.op = "Job.create"
    /\ JobKey(last.arg) \in created.freshJobs
    /\ last.err = "BadRequest"
    /\ Len(last.issued) = 1

\* the key a create call checks for
RaceKey(q) == IF q.entity = "Job" THEN JobKey(q.data) ELSE <<q.data.handle>>

\* the calls that passed their duplicate check and went on to their INSERT
Inserters(entity, key) ==
    {p \in 1..MaxCalls :
        procs[p].pc = "done" /\ procs[p].inserted
            /\ procs[p].entity = entity /\ RaceKey(procs[p]) = key}

RowsWithKey(entity, key) ==
    IF entity = "Job" THEN {j \in jobs : <<j.title, j.company_handle>> = key}
    ELSE {c \in companies : <<c.handle>> = key}

\* the store keeps the key that create checks unique by itself
StoreKeepsUnique(entity) ==
    IF entity = "Job" THEN StoreUniqueKey["jobs"] = "title, company_handle"
    ELSE StoreUniqueKey["companies"] = "handle"

\* C5: create calls of one key that interleave at their store round-trips can all
\* pass the duplicate check and reach the INSERT; none of them ends in
\* BadRequest; whether a second row of the key is stored is the store's doing:
\* every INSERT is kept where the store does not keep the key unique, one is
\* kept and the others are refused by the store where it does.
C5_RaceIsLeftToTheStore ==
    /\ \A p \in 1..MaxCalls :
          procs[p].pc = "checked" \/ procs[p].inserted => procs[p].err # "BadRequest"
    /\ \A p \in 1..MaxCalls : procs[p].inserted =>
          LET entity == procs[p].entity
              key == RaceKey(procs[p])
              done == Inserters(entity, key)
              kept == {q \in done : procs[q].err = ""}
          IN  /\ \A q \in done : procs[q].err \in {"", "StoreError"}
              /\ Cardinality(RowsWithKey(entity, key)) = Cardinality(kept)
              /\ IF StoreKeepsUnique(entity) THEN Cardinality(kept) = 1 ELSE kept = done

\* two Job.create calls of one pair have both passed the check and both inserted
C5_Witness ==
    \E p, q \in 1..MaxCalls :
        /\ p # q
        /\ procs[p].entity = "Job" /\ procs[q].entity = "Job"
        /\ procs[p].inserted /\ procs[q].inserted
        /\ RaceKey(procs[p]) = RaceKey(procs[q])
        /\ procs[p].err = "" /\ procs[q].err = ""
        /\ Cardinality(RowsWithKey("Job", RaceKey(procs[p]))) = 2

\* the rows findAll returns in this state, as a set
JobFindAllRows ==
    ResultRows(Query(jobs, nextId, JobFindAllStmt), JobFindAllStmt)
CompanyFindAllRows ==
    ResultRows(Query(companies, nextId, CompanyFindAllStmt), CompanyFindAllStmt)

\* C8: in every store state Job.filter and Company.filter with an empty filter
\* set return the same set of rows as findAll of the same entity.
C8_ZeroFiltersIsFindAll ==
    /\ (last.op = "Job.filter" /\ Len(last.arg.filters) = 0) =>
            (last.err = "" /\ last.ret = JobFindAllRows)
    /\ (last.op = "Company.filter" /\ Len(last.arg.filters) = 0) =>
            (last.err = "" /\ last.ret = CompanyFindAllRows)

\* C9: Company.filter with both bounds and maxEmployees < minEmployees fails
\* with BadRequest, with or without a name filter, and has sent no statement
\* to the store.
C9_BadRangeIsBadRequest ==
    (/\ last.op = "Company.filter"
     /\ Has(last.arg.filters, "minEmployees") /\ Has(last.arg.filters, "maxEmployees")
     /\ DigitsValue(Get(last.arg.filters, "maxEmployees"))
            < DigitsValue(Get(last.arg.filters, "minEmployees")))
        => (last.err = "BadRequest" /\ last.issued = <<>>)

\* a refused range with a name filter next to it, in a store that holds a company
C9_Witness ==
    /\ last.op = "Company.filter"
    /\ Has(last.arg.filters, "name")
    /\ Has(last.arg.filters, "minEmployees") /\ Has(last.arg.filters, "maxEmployees")
    /\ Get(last.arg.filters, "minEmployees") = <<"2">>
    /\ Get(last.arg.filters, "maxEmployees") = <<"1">>
    /\ companies # {}
    /\ last.err = "BadRequest"
    /\ last.issued = <<>>

\* the ids of the stored jobs with equity that is not NULL and above 0
WithEquity == {j.id : j \in {r \in jobs : r.equity # NULL /\ r.equity[1] > 0}}

\* C10: Job.filter with hasEquity true returns the jobs that the same filter set
\* without hasEquity returns and that have non-null equity above 0; with hasEquity
\* false it returns what the same filter set without hasEquity returns; alone or
\* together with title and/or minSalary.
C10_EquityTriState ==
    (last.op = "Job.filter" /\ Has(last.arg.filters, "hasEquity")) =>
        LET base == JobFilter(jobs, nextId, Without(last.arg.filters, "hasEquity"))
        IN  /\ last.err = ""
            /\ base.err = ""
            /\ IF Get(last.arg.filters, "hasEquity") = TrueText
               THEN last.ret = {r \in base.ret : r.id \in WithEquity}
               ELSE last.ret = base.ret

\* the stored job meets every filter given, as the filters are documented: the
\* title holds the text (case apart), the salary is at least minSalary, the
\* equity is above 0 when hasEquity is true
JobSatisfies(j, filters) ==
    /\ Has(filters, "title") => Contains(j.title, Get(filters, "title"))
    /\ Has(filters, "minSalary") =>
          (j.salary # NULL /\ j.salary[1] >= DigitsValue(Get(filters, "minSalary")))
    /\ (Has(filters, "hasEquity") /\ Get(filters, "hasEquity") = TrueText) =>
          (j.equity # NULL /\ j.equity[1] > 0)

\* the stored company meets every filter given: the name holds the text (case
\* apart), the employees are at least minEmployees and no more than maxEmployees
CompanySatisfies(c, filters) ==
    /\ Has(filters, "name") => Contains(c.name, Get(filters, "name"))
    /\ Has(filters, "minEmployees") =>
          (c.num_employees # NULL
              /\ c.num_employees[1] >= DigitsValue(Get(filters, "minEmployees")))
    /\ Has(filters, "maxEmployees") =>
          (c.num_employees # NULL
              /\ c.num_employees[1] <= DigitsValue(Get(filters, "maxEmployees")))

\* both bounds are given and the upper one is below the lower one
EmptyRange(filters) ==
    /\ Has(filters, "minEmployees") /\ Has(filters, "maxEmployees")
    /\ DigitsValue(Get(filters, "maxEmployees")) < DigitsValue(Get(filters, "minEmployees"))

\* C11: for every non-empty combination of recognized filters the statement
\* that filter builds is accepted by the store and the rows returned are
\* exactly the stored rows that meet every filter given.
C11_FiltersJoinedByAnd ==
    /\ (last.op = "Job.filter" /\ Len(last.arg.filters) > 0) =>
          /\ last.err = ""
          /\ {r.id : r \in last.ret} =
                {j.id : j \in {x \in jobs : JobSatisfies(x, last.arg.filters)}}
    /\ (last.op = "Company.filter" /\ Len(last.arg.filters) > 0
            /\ ~EmptyRange(last.arg.filters)) =>
          /\ last.err = ""
          /\ {r.handle : r \in last.ret} =
                {c.handle : c \in {x \in companies : CompanySatisfies(x, last.arg.filters)}}

\* the same filter keys with other caller values: other text, another number;
\* hasEquity, which picks a clause and is never written out, stays
OtherFilters(filters) ==
    [i \in 1..Len(filters) |->
        IF filters[i].k = "hasEquity" THEN filters[i] ELSE Entry(filters[i].k, <<"9">>)]

OtherJob == [title |-> <<"z">>, salary |-> Some(9), equity |-> Some(9), company_handle |-> "z"]
OtherCompany ==
    [handle |-> "z", name |-> <<"z">>, description |-> "z",
     numEmployees |-> Some(9), logoUrl |-> Some("z")]

\* the statements a call builds, in the order it sends them, were the caller's
\* values other ones
WithOtherValues(call) ==
    CASE call.op = "Job.filter" -> <<JobFilterStmt(OtherFilters(call.arg.filters))>>
      [] call.op = "Company.filter" -> <<CompanyFilterStmt(OtherFilters(call.arg.filters))>>
      [] call.op = "Job.findAll" -> <<JobFindAllStmt>>
      [] call.op = "Company.findAll" -> <<CompanyFindAllStmt>>
      [] call.op = "Job.create" -> <<JobDupCheckStmt(OtherJob), JobInsertStmt(OtherJob)>>
      [] call.op = "Company.create" ->
            <<CompanyDupCheckStmt(OtherCompany), CompanyInsertStmt(OtherCompany)>>
      [] OTHER -> <<>>

\* C12: the text of every statement that create, findAll and filter send to the
\* store is the same whatever values the caller gave: the values travel as
\* bound parameters, none is written into the SQL text.
C12_ValuesOnlyAsParams ==
    \A i \in 1..Len(last.issued) :
        last.issued[i].text = WithOtherValues(last)[i].text

\* the handles Company.filter returns in this state for some filters
FilteredHandles(filters) ==
    {r.handle : r \in CompanyFilter(companies, nextId, filters).ret}

\* C13: a company is returned by Company.filter exactly when its employees are
\* at least minEmployees and no more than maxEmployees, for one bound alone as
\* for both together; so the result for both bounds is what the results for
\* each bound alone have in common.
C13_BoundsInclusive ==
    (/\ last.op = "Company.filter"
     /\ Has(last.arg.filters, "minEmployees") \/ Has(last.arg.filters, "maxEmployees")
     /\ ~EmptyRange(last.arg.filters)) =>
        /\ last.err = ""
        /\ \A c \in companies :
              (\E r \in last.ret : r.handle = c.handle) <=> CompanySatisfies(c, last.arg.filters)
        /\ (Has(last.arg.filters, "minEmployees") /\ Has(last.arg.filters, "maxEmployees")) =>
              {r.handle : r \in last.ret} =
                  FilteredHandles(Without(last.arg.filters, "maxEmployees"))
                      \cap FilteredHandles(Without(last.arg.filters, "minEmployees"))

\* a list of result rows ascends in salary, the rows without salary last
AscendsInSalary(rows) ==
    \A i, j \in 1..Len(rows) : i < j =>
        \/ rows[j].salary = NULL
        \/ rows[i].salary # NULL /\ rows[i].salary[1] <= rows[j].salary[1]

\* a list of result rows ascends in name
AscendsInName(rows) ==
    \A i, j \in 1..Len(rows) : i < j => TextLeq(rows[i].name, rows[j].name)

\* C14: findAll leaves the store as it is and returns every stored row of the
\* entity once, Job.findAll in non-decreasing salary order (rows without a
\* salary last), Company.findAll in non-decreasing name order.
C14_FindAllOrdered ==
    [][/\ last'.op = "Job.findAll" =>
            /\ jobs' = jobs /\ companies' = companies /\ nextId' = nextId
            /\ last'.err = ""
            /\ Len(last'.ret) = Cardinality(jobs)
            /\ Range(last'.ret) = JobFindAllRows
            /\ AscendsInSalary(last'.ret)
       /\ last'.op = "Company.findAll" =>
            /\ jobs' = jobs /\ companies' = companies /\ nextId' = nextId
            /\ last'.err = ""
            /\ Len(last'.ret) = Cardinality(companies)
            /\ Range(last'.ret) = CompanyFindAllRows
            /\ AscendsInName(last'.ret)]_vars

\* Job.findAll has returned two jobs, the one created later first and the one
\* without a salary last
C14_Witness ==
    /\ last.op = "Job.findAll"
    /\ Len(last.ret) = 2
    /\ last.ret[1].salary = Some(1) /\ last.ret[2].salary = NULL
    /\ last.ret[1].id > last.ret[2].id

\* the row with the fields of the payload set to the payload's values
RowWith(row, data, m) ==
    [c \in DOMAIN row |->
        IF \E i \in 1..Len(data) : ClaimedColumn(m, data[i].k) = c
        THEN data[CHOOSE i \in 1..Len(data) : ClaimedColumn(m, data[i].k) = c].v
        ELSE row[c]]

\* an update call did what is claimed: one statement with the identifier bound
\* last, the row changed in the payload's fields and in nothing else, the other
\* rows as they were, the new contents returned and returned again by `got`
UpdatedAsClaimed(call, text, keyCol, key, m, returning, rows, rowsAfter, got) ==
    LET data == call.arg.data
        n == Len(data)
        old == CHOOSE r \in rows : r[keyCol] = key
        new == RowWith(old, data, m)
    IN  /\ call.err = ""
        /\ Len(call.issued) = 1
        /\ call.issued[1].text = text
        /\ call.issued[1].ast.where = <<Cond(keyCol, n + 1)>>
        /\ Len(call.issued[1].params) = n + 1
        /\ call.issued[1].params[n + 1] = key
        /\ rowsAfter = (rows \ {old}) \cup {new}
        /\ call.ret = Some(Project(new, returning))
        /\ got.err = ""
        /\ got.ret = call.ret

JobUpdateText(data) ==
    "UPDATE jobs SET " \o ClaimedSetCols(data, JobMap, Len(data)) \o " WHERE id = $"
        \o ToString(Len(data) + 1) \o " RETURNING title, salary, equity, company_handle"

CompanyUpdateText(data) ==
    "UPDATE companies SET " \o ClaimedSetCols(data, CompanyMap, Len(data))
        \o " WHERE handle = $" \o ToString(Len(data) + 1)
        \o " RETURNING handle, name, description, "
        \o "num_employees AS \"numEmployees\", logo_url AS \"logoUrl\""

NamesDistinctColumns(data, m, table) ==
    /\ NamesColumns(data, m, table)
    /\ \A i, j \in 1..Len(data) :
          ClaimedColumn(m, data[i].k) = ClaimedColumn(m, data[j].k) => i = j

\* the handle a company has once the payload is applied
HandleAfter(handle, data) ==
    IF Has(data, "handle") THEN Get(data, "handle") ELSE handle

C16_RejectedCallChangesNothing ==
    [][(last'.op # "none" /\ last'.err \in {"BadRequest", "NotFound"}) =>
            (jobs' = jobs /\ companies' = companies)]_vars

\* a second Job.create of a stored pair has been turned down, a job being stored
C16_Witness ==
    /\ last.op = "Job.create"
    /\ last.err = "BadRequest"
    /\ \E j \in jobs : JobKey(j) = JobKey(last.arg)
    /\ companies # {}

====
